---------------------------- MODULE Spec2Model ----------------------------
(***************************************************************************)
(* DocuLens: the /convert request handler (backend/main.py) and the three  *)
(* renderers of DocumentService (backend/services/document.py).            *)
(*                                                                         *)
(* One behaviour of the model is one request: the uploaded files and the   *)
(* output format are fixed by Init, and the bytes of every file carry what *)
(* the external collaborators (PyMuPDF, Cloud Vision, the LLM) answer for  *)
(* them, so that the collaborators are deterministic functions of their    *)
(* input.  Text is modelled by TLA+ strings (ASCII, so that the UTF-8      *)
(* encoding of the TXT body is the string itself); file names, which       *)
(* os.path.splitext inspects character by character, are sequences of      *)
(* one-character strings.                                                  *)
(***************************************************************************)
EXTENDS Integers, Sequences, FiniteSets, TLC

(***************************************************************************)
(* Bounds of the model.                                                    *)
(***************************************************************************)
MaxFiles == 2
MaxPages == 2
MaxElems == 2
MaxNameLen == 3

(***************************************************************************)
(* Python helpers used by the code.                                        *)
(***************************************************************************)

\* dict.get(k, d)
Get(e, k, d) == IF k \in DOMAIN e THEN e[k] ELSE d

Digit(d) ==
    CASE d = 0 -> "0" [] d = 1 -> "1" [] d = 2 -> "2" [] d = 3 -> "3"
      [] d = 4 -> "4" [] d = 5 -> "5" [] d = 6 -> "6" [] d = 7 -> "7"
      [] d = 8 -> "8" [] d = 9 -> "9"

\* f"{n}" for a non-negative integer
RECURSIVE IntToStr(_)
IntToStr(n) == IF n < 10 THEN Digit(n) ELSE IntToStr(n \div 10) \o Digit(n % 10)

\* a join that ends every line with a newline instead of separating the lines
RECURSIVE JoinTerminated(_)
JoinTerminated(lines) ==
    IF lines = <<>> THEN "" ELSE lines[1] \o "\n" \o JoinTerminated(Tail(lines))

\* "\n".join(lines)
RECURSIVE JoinLines(_)
JoinLines(lines) ==
    IF lines = <<>> THEN ""
    ELSE IF Len(lines) = 1 THEN lines[1]
    ELSE lines[1] \o "\n" \o JoinLines(Tail(lines))

\* "".join(chars): the string spelled by a sequence of characters
RECURSIVE StrOf(_)
StrOf(chars) == IF chars = <<>> THEN "" ELSE chars[1] \o StrOf(Tail(chars))

\* the concatenation of a sequence of sequences
RECURSIVE Flatten(_)
Flatten(ss) == IF ss = <<>> THEN <<>> ELSE ss[1] \o Flatten(Tail(ss))

\* str.rfind(c) on a character sequence, -1 when absent (0-based)
RECURSIVE RFind(_, _)
RFind(p, c) ==
    IF p = <<>> THEN -1
    ELSE IF p[Len(p)] = c THEN Len(p) - 1
    ELSE RFind(SubSeq(p, 1, Len(p) - 1), c)

(***************************************************************************)
(* TXT renderer.                                                           *)
(***************************************************************************)

\* enumerate(items) without its start: the items numbered from 0
NumberedFromZero(items) ==
    [idx \in 1..Len(items) |-> "  " \o IntToStr(idx - 1) \o ". " \o items[idx]]

\* the lines one numbered_list appends: enumerate(items, 1)
NumberedLines(items) ==
    [idx \in 1..Len(items) |-> "  " \o IntToStr(idx) \o ". " \o items[idx]]

BulletLines(items) == [i \in 1..Len(items) |-> "  - " \o items[i]]

\* the lines the loop body of generate_txt appends for one element
TxtElement(element) ==
    LET el_type == Get(element, "type", "paragraph")
        text    == Get(element, "text", "")
    IN  IF el_type = "heading1" THEN << "# " \o text, "" >>
        ELSE IF el_type = "heading2" THEN << "## " \o text, "" >>
        ELSE IF el_type = "heading3" THEN << "### " \o text, "" >>
        ELSE IF el_type = "bullet_list"
             THEN BulletLines(Get(element, "items", <<>>)) \o << "" >>
        ELSE IF el_type = "numbered_list"
             THEN NumberedLines(Get(element, "items", <<>>)) \o << "" >>
        ELSE << text, "" >>

generate_txt(structure) ==
    LET elements == Get(structure, "elements", <<>>)
        lines    == Flatten([i \in 1..Len(elements) |-> TxtElement(elements[i])])
    IN  JoinLines(lines)

(***************************************************************************)
(* DOCX renderer: the calls made on the python-docx document, in order.    *)
(***************************************************************************)

DocxElement(element) ==
    LET el_type == Get(element, "type", "paragraph")
        text    == Get(element, "text", "")
        items   == Get(element, "items", <<>>)
    IN  IF el_type = "heading1"
        THEN << [op |-> "add_heading", text |-> text, level |-> 1] >>
        ELSE IF el_type = "heading2"
        THEN << [op |-> "add_heading", text |-> text, level |-> 2] >>
        ELSE IF el_type = "heading3"
        THEN << [op |-> "add_heading", text |-> text, level |-> 3] >>
        ELSE IF el_type = "bullet_list"
        THEN [i \in 1..Len(items) |->
                [op |-> "add_paragraph", text |-> items[i], style |-> "List Bullet"]]
        ELSE IF el_type = "numbered_list"
        THEN [i \in 1..Len(items) |->
                [op |-> "add_paragraph", text |-> items[i], style |-> "List Number"]]
        ELSE << [op |-> "add_paragraph", text |-> text, style |-> ""] >>

generate_docx(structure) ==
    LET elements == Get(structure, "elements", <<>>)
    IN  << [op |-> "font", name |-> "Arial", size |-> 11] >>
        \o Flatten([i \in 1..Len(elements) |-> DocxElement(elements[i])])
        \o << [op |-> "save"] >>

(***************************************************************************)
(* PDF renderer: the calls made on the FPDF object, in order.              *)
(***************************************************************************)

HeadingSize(el_type) ==
    CASE el_type = "heading1" -> 22
      [] el_type = "heading2" -> 18
      [] el_type = "heading3" -> 14

SetFont(style, size) == [op |-> "set_font", family |-> "Helvetica", style |-> style, size |-> size]
Ln(h) == [op |-> "ln", h |-> h]
MultiCell(w, h, text) == [op |-> "multi_cell", w |-> w, h |-> h, text |-> text]
\* set_x(pdf.l_margin + off)
SetX(off) == [op |-> "set_x", off |-> off]

\* a loop body whose last branch takes paragraphs alone: an element of another
\* kind is passed over
PdfElementStrict(element) ==
    LET el_type == Get(element, "type", "paragraph")
        text    == Get(element, "text", "")
        items   == Get(element, "items", <<>>)
    IN  IF el_type \in {"heading1", "heading2", "heading3"}
        THEN << SetFont("B", HeadingSize(el_type)), Ln(4), MultiCell(0, 10, text),
                Ln(2), SetFont("", 11) >>
        ELSE IF el_type = "bullet_list"
        THEN Flatten([i \in 1..Len(items) |->
                << SetX(10), MultiCell(0, 7, "*  " \o items[i]) >>])
        ELSE IF el_type = "numbered_list"
        THEN Flatten([idx \in 1..Len(items) |->
                << SetX(10), MultiCell(0, 7, IntToStr(idx) \o ".  " \o items[idx]) >>])
        ELSE IF el_type = "paragraph"
        THEN << MultiCell(0, 7, text), Ln(2) >>
        ELSE <<>>

PdfElement(element) ==
    LET el_type == Get(element, "type", "paragraph")
        text    == Get(element, "text", "")
        items   == Get(element, "items", <<>>)
    IN  IF el_type \in {"heading1", "heading2", "heading3"}
        THEN << SetFont("B", HeadingSize(el_type)), Ln(4), MultiCell(0, 10, text),
                Ln(2), SetFont("", 11) >>
        ELSE IF el_type = "bullet_list"
        \* "*" stands for the bullet glyph U+2022
        THEN Flatten([i \in 1..Len(items) |->
                << SetX(10), MultiCell(0, 7, "*  " \o items[i]) >>])
        ELSE IF el_type = "numbered_list"
        THEN Flatten([idx \in 1..Len(items) |->
                << SetX(10), MultiCell(0, 7, IntToStr(idx) \o ".  " \o items[idx]) >>])
        ELSE << MultiCell(0, 7, text), Ln(2) >>

generate_pdf(structure) ==
    LET elements == Get(structure, "elements", <<>>)
    IN  << [op |-> "set_auto_page_break", margin |-> 15], [op |-> "add_page"],
           SetFont("", 11) >>
        \o Flatten([i \in 1..Len(elements) |-> PdfElement(elements[i])])
        \o << [op |-> "output"] >>

(***************************************************************************)
(* Constants of main.py.                                                   *)
(***************************************************************************)

ALLOWED_IMAGE_TYPES ==
    {"image/jpeg", "image/png", "image/webp", "image/gif", "image/bmp", "image/tiff"}

ALLOWED_PDF_TYPE == "application/pdf"

OUTPUT_FORMATS ==
    [f \in {"docx", "pdf", "txt"} |->
        CASE f = "docx" ->
               [method |-> "generate_docx",
                media_type |-> "application/vnd.openxmlformats-officedocument.wordprocessingml.document",
                extension |-> ".docx"]
          [] f = "pdf" ->
               [method |-> "generate_pdf", media_type |-> "application/pdf",
                extension |-> ".pdf"]
          [] f = "txt" ->
               [method |-> "generate_txt", media_type |-> "text/plain; charset=utf-8",
                extension |-> ".txt"]]

(***************************************************************************)
(* The external collaborators.  The bytes of an image are modelled by what *)
(* Cloud Vision answers for them (error_message, annotations) and by the   *)
(* reply the LLM gives for their text (reply); the bytes of a file by the  *)
(* image they are (image) and by what PyMuPDF makes of them (pdf).  A call *)
(* returns [raised, msg, value].                                           *)
(***************************************************************************)

Return(v) == [raised |-> FALSE, msg |-> "", value |-> v]
Raise(m, v) == [raised |-> TRUE, msg |-> m, value |-> v]

\* OCRService.detect_text
detect_text(file_content) ==
    IF file_content.error_message # ""
    THEN Raise(file_content.error_message
               \o "\nFor more info on error messages, check: "
               \o "https://cloud.google.com/apis/design/errors", "")
    ELSE IF file_content.annotations = <<>> THEN Return("")
    ELSE Return(file_content.annotations[1])

\* LLMService.extract_structure: the reply either holds a JSON object or not
extract_structure(reply) ==
    IF ~reply.has_json THEN Raise("No JSON found", reply.value)
    ELSE Return(reply.value)

\* PDFExtractorService.extract_images: fitz.open raises on bytes that are no PDF
extract_images(pdf_bytes) ==
    IF ~pdf_bytes.pdf.opens THEN Raise("Failed to open stream", <<>>)
    ELSE Return(pdf_bytes.pdf.pages)

\* os.path.splitext(p)[0] (posixpath), p a sequence of characters
SplitextRoot(p) ==
    LET sepIndex == RFind(p, "/")
        dotIndex == RFind(p, ".")
    IN  IF /\ dotIndex > sepIndex
           /\ \E k \in (sepIndex + 1)..(dotIndex - 1) : p[k + 1] # "."
        THEN SubSeq(p, 1, dotIndex)
        ELSE p

\* a check that lets a file without declared type through as an image
ClassifyLenient(content_type) ==
    IF content_type = ALLOWED_PDF_TYPE THEN "pdf"
    ELSE IF content_type = "" \/ content_type \in ALLOWED_IMAGE_TYPES THEN "image"
    ELSE "reject"

\* the branch the first loop takes for a declared type
Classify(content_type) ==
    IF content_type = ALLOWED_PDF_TYPE THEN "pdf"
    ELSE IF content_type \in ALLOWED_IMAGE_TYPES THEN "image"
    ELSE "reject"

\* an assignment where the code extends
ExtendAssign(merged, elements) == elements

\* an extend that leaves out the elements already merged
ExtendUnique(merged, elements) ==
    merged \o SelectSeq(elements, LAMBDA e : \A i \in 1..Len(merged) : merged[i] # e)

\* list.extend
Extend(merged, elements) == merged \o elements

\* the merge the second loop performs on the structures it is given, one
\* extend per structure, from an empty list
RECURSIVE Merge(_)
Merge(pageStructures) ==
    IF pageStructures = <<>> THEN <<>>
    ELSE Extend(Merge(SubSeq(pageStructures, 1, Len(pageStructures) - 1)),
                pageStructures[Len(pageStructures)])

\* merged_elements is None
NoTextIsNone(merged) == FALSE

\* not merged_elements
NoText(merged) == merged = <<>>

\* the lookup of the renderer by name and its call
Generate(method, structure) ==
    CASE method = "generate_docx" -> generate_docx(structure)
      [] method = "generate_pdf"  -> generate_pdf(structure)
      [] method = "generate_txt"  -> generate_txt(structure)

\* the file name with all the files counted as the other files
OutputFilenameAllCounted(fs, extension) ==
    LET name      == IF fs[1].filename = <<>>
                     THEN << "d", "o", "c", "u", "m", "e", "n", "t" >>
                     ELSE fs[1].filename
        base_name == StrOf(SplitextRoot(name))
    IN  IF Len(fs) > 1
        THEN base_name \o "_and_" \o IntToStr(Len(fs)) \o "_more" \o extension
        ELSE base_name \o extension

\* the file name of the attachment: files[0].filename or "document", without
\* its extension, the count of the other files, the extension of the format
OutputFilename(fs, extension) ==
    LET name      == IF fs[1].filename = <<>>
                     THEN << "d", "o", "c", "u", "m", "e", "n", "t" >>
                     ELSE fs[1].filename
        base_name == StrOf(SplitextRoot(name))
    IN  IF Len(fs) > 1
        THEN base_name \o "_and_" \o IntToStr(Len(fs) - 1) \o "_more" \o extension
        ELSE base_name \o extension

HTTPException(status_code, kind, detail) ==
    [http |-> TRUE, status_code |-> status_code, kind |-> kind, detail |-> detail]

Exception(msg) == [http |-> FALSE, status_code |-> 0, kind |-> "", detail |-> msg]

\* what the client gets for an exception that leaves convert_files: the
\* HTTPException as raised, a bare 500 for anything else
Propagate(e) ==
    IF e.http THEN [status_code |-> e.status_code, kind |-> e.kind, detail |-> e.detail]
    ELSE [status_code |-> 500, kind |-> "Unhandled", detail |-> "Internal Server Error"]

\* one except clause for every exception, the HTTPException included
HandleAsFailure(e) == Propagate(HTTPException(500, "ProcessingFailure", e.detail))

\* the except clauses of convert_files: an HTTPException is re-raised as it
\* is, any other exception is raised again as a 500 carrying str(e)
HandleException(e) ==
    IF e.http THEN Propagate(e)
    ELSE Propagate(HTTPException(500, "ProcessingFailure", e.detail))

(***************************************************************************)
(* The request: convert_files.                                             *)
(***************************************************************************)

VARIABLES
    files,            \* the uploaded files, in upload order
    output_format,    \* the output_format query parameter
    pc,               \* where convert_files stands
    file_no,          \* the number of files the first loop has taken
    image_buffers,    \* the image units collected so far
    idx,              \* the number of image units the second loop has taken
    raw_text,         \* the text of the unit being processed
    merged_elements,  \* the elements merged so far
    ocr_calls,        \* the image units handed to detect_text, in call order
    llm_calls,        \* the number of calls of extract_structure
    render_calls,     \* the structures handed to a renderer, with the method
    result,           \* the outcome of the request, once it has one
    response          \* the StreamingResponse returned, if any

vars == << files, output_format, pc, file_no, image_buffers, idx, raw_text,
           merged_elements, ocr_calls, llm_calls, render_calls, result, response >>

NoResult == [status_code |-> 0, kind |-> "", detail |-> ""]

\* an error handler that returns what was merged before the failure
FailWithPartial(r) ==
    /\ pc' = "done"
    /\ result' = r
    /\ response' = IF merged_elements = <<>> THEN <<>>
                   ELSE << [body |-> generate_txt([elements |-> merged_elements]),
                            media_type |-> "text/plain; charset=utf-8",
                            filename |-> "partial.txt"] >>

\* the request ends with an error response
Fail(r) ==
    /\ pc' = "done"
    /\ result' = r
    /\ response' = <<>>

\* lines 79-80
CheckFormat ==
    /\ pc = "format"
    /\ IF output_format \notin DOMAIN OUTPUT_FORMATS
       THEN Fail(Propagate(HTTPException(400, "UnsupportedFormat",
                     "Unsupported format: " \o output_format)))
       ELSE pc' = "collect" /\ UNCHANGED << result, response >>
    /\ UNCHANGED << files, output_format, file_no, image_buffers, idx, raw_text,
                    merged_elements, ocr_calls, llm_calls, render_calls >>

\* lines 85-102: one round of the loop over the uploaded files
CollectFile ==
    /\ pc = "collect"
    /\ file_no < Len(files)
    /\ LET uploaded_file == files[file_no + 1]
           content_type  == uploaded_file.content_type
           raw_bytes     == uploaded_file.raw
           page_images   == extract_images(raw_bytes)
       IN  IF Classify(content_type) = "pdf"
           THEN IF page_images.raised
                THEN /\ Fail(Propagate(Exception(page_images.msg)))
                     /\ UNCHANGED << file_no, image_buffers >>
                ELSE /\ image_buffers' = image_buffers \o page_images.value
                     /\ file_no' = file_no + 1
                     /\ UNCHANGED << pc, result, response >>
           ELSE IF Classify(content_type) = "image"
           THEN /\ image_buffers' = Append(image_buffers, raw_bytes.image)
                /\ file_no' = file_no + 1
                /\ UNCHANGED << pc, result, response >>
           ELSE /\ Fail(Propagate(HTTPException(400, "UnsupportedFileType",
                          "Unsupported file type: " \o content_type
                          \o ". Upload images or PDFs.")))
                /\ UNCHANGED << file_no, image_buffers >>
    /\ UNCHANGED << files, output_format, idx, raw_text, merged_elements,
                    ocr_calls, llm_calls, render_calls >>

\* lines 104-105, and the entry of the try block
CheckBuffers ==
    /\ pc = "collect"
    /\ file_no = Len(files)
    /\ IF image_buffers = <<>>
       THEN Fail(Propagate(HTTPException(400, "NoValidFiles",
                     "No valid files uploaded.")))
       ELSE pc' = "ocr" /\ UNCHANGED << result, response >>
    /\ UNCHANGED << files, output_format, file_no, image_buffers, idx, raw_text,
                    merged_elements, ocr_calls, llm_calls, render_calls >>

\* lines 111-117: the OCR of the next image unit
DetectText ==
    /\ pc = "ocr"
    /\ idx < Len(image_buffers)
    /\ LET img_bytes == image_buffers[idx + 1]
           call      == detect_text(img_bytes)
       IN  /\ ocr_calls' = Append(ocr_calls, img_bytes)
           /\ IF call.raised
              THEN /\ Fail(HandleException(Exception(call.msg)))
                   /\ UNCHANGED << idx, raw_text >>
              ELSE IF call.value = ""
              THEN /\ idx' = idx + 1
                   /\ UNCHANGED << pc, raw_text, result, response >>
              ELSE /\ raw_text' = call.value
                   /\ pc' = "llm"
                   /\ UNCHANGED << idx, result, response >>
    /\ UNCHANGED << files, output_format, file_no, image_buffers, merged_elements,
                    llm_calls, render_calls >>

\* lines 119-123: the structure of the unit, merged
ExtractStructure ==
    /\ pc = "llm"
    /\ LET call      == extract_structure(image_buffers[idx + 1].reply)
           elements  == Get(call.value, "elements", <<>>)
       IN  /\ llm_calls' = llm_calls + 1
           /\ IF call.raised
              THEN /\ Fail(HandleException(Exception(call.msg)))
                   /\ UNCHANGED << idx, merged_elements >>
              ELSE /\ merged_elements' = Extend(merged_elements, elements)
                   /\ idx' = idx + 1
                   /\ pc' = "ocr"
                   /\ UNCHANGED << result, response >>
    /\ UNCHANGED << files, output_format, file_no, image_buffers, raw_text,
                    ocr_calls, render_calls >>

\* lines 125-129
CheckMerged ==
    /\ pc = "ocr"
    /\ idx = Len(image_buffers)
    /\ IF NoText(merged_elements)
       THEN Fail(HandleException(HTTPException(400, "NoTextDetected",
                     "No text could be detected in any of the uploaded files.")))
       ELSE pc' = "generate" /\ UNCHANGED << result, response >>
    /\ UNCHANGED << files, output_format, file_no, image_buffers, idx, raw_text,
                    merged_elements, ocr_calls, llm_calls, render_calls >>

\* lines 131-150
GenerateOutput ==
    /\ pc = "generate"
    /\ LET merged_structure == [elements |-> merged_elements]
           fmt              == OUTPUT_FORMATS[output_format]
           output_buffer    == Generate(fmt.method, merged_structure)
           filename         == OutputFilename(files, fmt.extension)
       IN  /\ render_calls' = Append(render_calls,
                                 [method |-> fmt.method, structure |-> merged_structure])
           /\ response' = << [body |-> output_buffer, media_type |-> fmt.media_type,
                              filename |-> filename] >>
           /\ result' = [status_code |-> 200, kind |-> "", detail |-> ""]
           /\ pc' = "done"
    /\ UNCHANGED << files, output_format, file_no, image_buffers, idx, raw_text,
                    merged_elements, ocr_calls, llm_calls >>

Next ==
    \/ CheckFormat
    \/ CollectFile
    \/ CheckBuffers
    \/ DetectText
    \/ ExtractStructure
    \/ CheckMerged
    \/ GenerateOutput

(***************************************************************************)
(* The requests of the model.                                              *)
(***************************************************************************)

\* the sequences over S of length lo..hi
SeqsOf(S, lo, hi) == UNION {[1..n -> S] : n \in lo..hi}

\* an image whose text is t and for whose text the LLM answers the JSON v
Unit(t, v) ==
    [error_message |-> "", annotations |-> << t >>,
     reply |-> [has_json |-> TRUE, value |-> v]]

NoReply == [has_json |-> FALSE, value |-> [elements |-> <<>>]]

Para(t) == [type |-> "paragraph", text |-> t]
TitleDoc == << [type |-> "heading1", text |-> "Title"],
               [type |-> "bullet_list", items |-> << "A", "B" >>] >>

UEmpty  == [error_message |-> "", annotations |-> <<>>, reply |-> NoReply]
UA      == Unit("a", [elements |-> << Para("a") >>])
UB      == Unit("b", [elements |-> TitleDoc])
UC      == Unit("c", [elements |-> << Para("c") >>])
UNoKey  == Unit("n", [title |-> "x"])
UOcrErr == [error_message |-> "quota", annotations |-> <<>>, reply |-> NoReply]
ULlmErr == [error_message |-> "", annotations |-> << "g" >>, reply |-> NoReply]

UnitKinds == {UEmpty, UA, UB, UNoKey, UOcrErr, ULlmErr}
PageKinds == {UEmpty, UA}

NoPdf == [opens |-> FALSE, pages |-> <<>>]
Report == << "r", "e", "p", "o", "r", "t", ".", "p", "n", "g" >>

ImageFile(name, t, u) ==
    [filename |-> name, content_type |-> t, raw |-> [image |-> u, pdf |-> NoPdf]]
PdfFile(name, pages) ==
    [filename |-> name, content_type |-> ALLOWED_PDF_TYPE,
     raw |-> [image |-> UEmpty, pdf |-> [opens |-> TRUE, pages |-> pages]]]
CorruptPdf(name) ==
    [filename |-> name, content_type |-> ALLOWED_PDF_TYPE,
     raw |-> [image |-> UEmpty, pdf |-> NoPdf]]

\* requests that vary what the files hold, for one format of the table and one
\* that is not in it
ContentFormats == {"txt", "xml"}

FileKinds ==
    {ImageFile(Report, "image/png", u) : u \in UnitKinds}
    \cup {ImageFile(Report, t, UA) : t \in {"application/json", ""}}
    \cup {PdfFile(Report, ps) : ps \in SeqsOf(PageKinds, 0, MaxPages)}
    \cup {CorruptPdf(Report)}

ContentRequests ==
    {[files |-> fs, output_format |-> f] :
        fs \in SeqsOf(FileKinds, 1, MaxFiles), f \in ContentFormats}

\* two images and a PDF of three pages, one of them without text
ScenarioRequests ==
    LET img1 == ImageFile(Report, "image/png", UA)
        img2 == ImageFile(Report, "image/gif", UB)
        pdfs == {PdfFile(Report, ps) :
                    ps \in {<< UEmpty, UC, UA >>, << UC, UEmpty, UA >>, << UC, UA, UEmpty >>}}
    IN  {[files |-> fs, output_format |-> f] :
            fs \in UNION {{<< img1, img2, d >>, << img1, d, img2 >>, << d, img1, img2 >>}
                            : d \in pdfs},
            f \in DOMAIN OUTPUT_FORMATS}

\* requests that vary the name of the first file and the number of files
NameChars == {"r", ".", "/"}
Names == SeqsOf(NameChars, 0, MaxNameLen) \cup {Report}

NameRequests ==
    {[files |-> [i \in 1..n |-> ImageFile(IF i = 1 THEN name ELSE Report, "image/png", UA)],
      output_format |-> f] :
        name \in Names, n \in 1..(MaxFiles + 1), f \in DOMAIN OUTPUT_FORMATS \cup {"xml"}}

\* requests that vary the elements the LLM answers
Elements ==
    {[type |-> "heading1", text |-> "Title"],
     [type |-> "heading2", text |-> "T"],
     [type |-> "heading3", text |-> "T"],
     [type |-> "heading1"],
     [type |-> "paragraph", text |-> "P"],
     [type |-> "table", text |-> "P"],
     [text |-> "P"],
     [items |-> << "A" >>],
     [type |-> "bullet_list", items |-> << "A", "B" >>],
     [type |-> "bullet_list", items |-> <<>>],
     [type |-> "bullet_list"],
     [type |-> "numbered_list", items |-> << "A", "B" >>],
     [type |-> "numbered_list", items |-> << "a", "b", "c", "d", "e", "f", "g", "h", "i", "j" >>],
     [type |-> "numbered_list", items |-> <<>>],
     [type |-> "numbered_list"]}

ElementRequests ==
    {[files |-> << ImageFile(Report, "image/png", Unit("t", [elements |-> els])) >>,
      output_format |-> f] :
        els \in SeqsOf(Elements, 1, MaxElems), f \in DOMAIN OUTPUT_FORMATS}

Requests == ContentRequests \cup ScenarioRequests \cup NameRequests \cup ElementRequests

Init ==
    /\ \E r \in Requests : files = r.files /\ output_format = r.output_format
    /\ pc = "format"
    /\ file_no = 0
    /\ image_buffers = <<>>
    /\ idx = 0
    /\ raw_text = ""
    /\ merged_elements = <<>>
    /\ ocr_calls = <<>>
    /\ llm_calls = 0
    /\ render_calls = <<>>
    /\ result = NoResult
    /\ response = <<>>

Spec == Init /\ [][Next]_vars

(***************************************************************************)
(* What a request asks for, read off its files alone.                      *)
(***************************************************************************)

Supported(f) == f.content_type \in ALLOWED_IMAGE_TYPES \cup {ALLOWED_PDF_TYPE}

\* the image units of the files: an image is one unit, a PDF one per page
RECURSIVE UnitsOf(_)
UnitsOf(fs) ==
    IF fs = <<>> THEN <<>>
    ELSE (IF fs[1].content_type = "application/pdf" THEN fs[1].raw.pdf.pages
          ELSE << fs[1].raw.image >>) \o UnitsOf(Tail(fs))

TextOf(u) == IF u.annotations = <<>> THEN "" ELSE u.annotations[1]
ElementsOf(u) == IF "elements" \in DOMAIN u.reply.value THEN u.reply.value.elements ELSE <<>>

\* the element lists of the units that have text, in unit order
RECURSIVE StructuresOf(_)
StructuresOf(us) ==
    IF us = <<>> THEN <<>>
    ELSE (IF TextOf(us[1]) = "" THEN <<>> ELSE << ElementsOf(us[1]) >>)
         \o StructuresOf(Tail(us))

RECURSIVE Concat(_)
Concat(ss) == IF ss = <<>> THEN <<>> ELSE ss[1] \o Concat(Tail(ss))

Rendered == render_calls # <<>>
Succeeded == pc = "done" /\ response # <<>>

\* C1: the elements handed to the renderer are the element lists of the units
\* with text, concatenated in unit order (file, then page, then element), with
\* nothing reordered, dropped or removed as a duplicate; the renderer is
\* called at most once.
C1_RenderedIsConcatenation ==
    Rendered =>
        /\ Len(render_calls) = 1
        /\ image_buffers = UnitsOf(files)
        /\ render_calls[1].structure.elements = Concat(StructuresOf(UnitsOf(files)))

\* two images and a PDF of three pages, one page without text: four units
\* contribute
C1_Witness ==
    /\ Rendered
    /\ Len(files) = 3
    /\ Cardinality({i \in 1..3 : files[i].content_type = "application/pdf"}) = 1
    /\ Len(image_buffers) = 5
    /\ Len(StructuresOf(image_buffers)) = 4
    /\ Len(render_calls[1].structure.elements) = 5

FirstBad(fs) == CHOOSE i \in 1..Len(fs) : ~Supported(fs[i]) /\ \A j \in 1..(i - 1) : Supported(fs[j])
HasBad(fs) == \E i \in 1..Len(fs) : ~Supported(fs[i])

\* C2 as stated: a file of an unsupported declared type makes the request fail
\* with UnsupportedFileType (400) and no OCR call, wherever the file is.
C2_AsStated ==
    (pc = "done" /\ HasBad(files)) =>
        /\ result.kind = "UnsupportedFileType"
        /\ result.status_code = 400
        /\ ocr_calls = <<>>

\* C2 amended: with a file of an unsupported declared type in the upload, no
\* OCR call, no structure extraction and no rendering ever happens and no
\* response body is returned; the failure is UnsupportedFileType (400, the
\* detail naming the first offending type) when the output format is supported
\* and every PDF before the first offending file opens.
C2_RejectedBeforeOcr ==
    HasBad(files) =>
        /\ ocr_calls = <<>> /\ llm_calls = 0 /\ render_calls = <<>> /\ response = <<>>
        /\ pc = "done" => result.status_code \in {400, 500}
        /\ ( /\ pc = "done"
             /\ output_format \in {"docx", "pdf", "txt"}
             /\ \A j \in 1..(FirstBad(files) - 1) :
                    files[j].content_type = "application/pdf" => files[j].raw.pdf.opens )
           => result = [status_code |-> 400, kind |-> "UnsupportedFileType",
                        detail |-> "Unsupported file type: "
                                   \o files[FirstBad(files)].content_type
                                   \o ". Upload images or PDFs."]

\* the offending file is the second one, after a PDF with pages
C2_Witness ==
    /\ pc = "done"
    /\ result.kind = "UnsupportedFileType"
    /\ Len(files) = 2
    /\ files[1].content_type = "application/pdf"
    /\ Len(image_buffers) = 2
    /\ files[2].content_type = "application/json"

\* C3: when every image unit has been processed and nothing was merged, the
\* request fails with NoTextDetected (400) and no renderer is called; so it is
\* in particular when no unit of the upload has text.
C3_NoTextDetected ==
    /\ ( /\ pc = "done"
         /\ file_no = Len(files) /\ image_buffers # <<>>
         /\ idx = Len(image_buffers) /\ merged_elements = <<>> )
       => /\ result.kind = "NoTextDetected" /\ result.status_code = 400
          /\ render_calls = <<>> /\ response = <<>>
    /\ ( /\ pc = "done"
         /\ output_format \in {"docx", "pdf", "txt"}
         /\ \A i \in 1..Len(files) :
               /\ Supported(files[i])
               /\ files[i].content_type = "application/pdf" => files[i].raw.pdf.opens
         /\ UnitsOf(files) # <<>>
         /\ \A i \in 1..Len(UnitsOf(files)) :
               UnitsOf(files)[i].error_message = "" /\ TextOf(UnitsOf(files)[i]) = "" )
       => /\ result.kind = "NoTextDetected" /\ result.status_code = 400
          /\ render_calls = <<>> /\ response = <<>>

\* three units, none with text
C3_Witness ==
    /\ pc = "done"
    /\ result.kind = "NoTextDetected"
    /\ Len(image_buffers) = 3
    /\ Len(ocr_calls) = 3
    /\ llm_calls = 0
    /\ \A i \in 1..3 : TextOf(image_buffers[i]) = ""

\* C4 as stated: the TXT rendering of [heading1 "Title", bullet_list [A, B]]
\* is "# Title\n\n  - A\n  - B\n\n", ending with two newline characters.
C4_AsStated ==
    (Succeeded /\ output_format = "txt" /\ render_calls[1].structure.elements = TitleDoc)
        => response[1].body = "# Title\n\n  - A\n  - B\n\n"

\* C4 amended: the TXT rendering of [heading1 "Title", bullet_list [A, B]] is
\* "# Title\n\n  - A\n  - B\n": the blank line after the bullet block is the
\* last of the joined lines, so the output ends with one newline character.
C4_TitleDocTxt ==
    (Succeeded /\ output_format = "txt" /\ render_calls[1].structure.elements = TitleDoc)
        => response[1].body = "# Title\n\n  - A\n  - B\n"

C4_Witness ==
    /\ Succeeded
    /\ output_format = "txt"
    /\ render_calls[1].structure.elements = TitleDoc
    /\ response[1].media_type = "text/plain; charset=utf-8"

OcrMessage(u) ==
    u.error_message
    \o "\nFor more info on error messages, check: https://cloud.google.com/apis/design/errors"

OcrRaised ==
    /\ ocr_calls # <<>>
    /\ ocr_calls[Len(ocr_calls)].error_message # ""

LlmRaised ==
    /\ llm_calls > 0
    /\ idx < Len(image_buffers)
    /\ Len(ocr_calls) = idx + 1
    /\ image_buffers[idx + 1].error_message = ""
    /\ TextOf(image_buffers[idx + 1]) # ""
    /\ ~image_buffers[idx + 1].reply.has_json

AllOpen(fs) ==
    \A i \in 1..Len(fs) :
        /\ Supported(fs[i])
        /\ fs[i].content_type = "application/pdf" => fs[i].raw.pdf.opens

\* C5: an exception of the OCR call or of the structure extraction ends the
\* request with ProcessingFailure (500) carrying the exception's message; the
\* classified failures keep their kind and their 400, and a ProcessingFailure
\* is never anything but such an exception.
C5_ErrorKinds ==
    pc = "done" =>
        /\ OcrRaised =>
              result = [status_code |-> 500, kind |-> "ProcessingFailure",
                        detail |-> OcrMessage(ocr_calls[Len(ocr_calls)])]
        /\ LlmRaised =>
              result = [status_code |-> 500, kind |-> "ProcessingFailure",
                        detail |-> "No JSON found"]
        /\ result.kind = "ProcessingFailure" => (OcrRaised \/ LlmRaised)
        /\ result.kind \in {"UnsupportedFormat", "UnsupportedFileType", "NoValidFiles",
                            "NoTextDetected"} => result.status_code = 400
        /\ output_format \notin {"docx", "pdf", "txt"} =>
              result = [status_code |-> 400, kind |-> "UnsupportedFormat",
                        detail |-> "Unsupported format: " \o output_format]
        /\ ( /\ output_format \in {"docx", "pdf", "txt"}
             /\ AllOpen(files) /\ UnitsOf(files) = <<>> ) =>
              result = [status_code |-> 400, kind |-> "NoValidFiles",
                        detail |-> "No valid files uploaded."]
        /\ ( /\ file_no = Len(files) /\ image_buffers # <<>>
             /\ idx = Len(image_buffers) /\ merged_elements = <<>> ) =>
              result = [status_code |-> 400, kind |-> "NoTextDetected",
                        detail |-> "No text could be detected in any of the uploaded files."]

\* the structure extraction of the second unit raises, after the first unit
\* was merged
C5_Witness ==
    /\ pc = "done"
    /\ LlmRaised
    /\ idx = 1
    /\ merged_elements # <<>>
    /\ result.kind = "ProcessingFailure"

\* C6: a response body is returned only by a request that has handed every
\* image unit to the OCR, and it is the rendering of all the elements of the
\* units with text; a request that fails returns no body.
C6_NoPartialOutput ==
    /\ response # <<>> =>
          /\ pc = "done" /\ result.status_code = 200
          /\ ocr_calls = UnitsOf(files)
          /\ response[1].body =
                Generate(OUTPUT_FORMATS[output_format].method,
                         [elements |-> Concat(StructuresOf(UnitsOf(files)))])
    /\ pc = "done" =>
          /\ result.status_code \in {200, 400, 500}
          /\ result.status_code = 200 <=> response # <<>>

\* the OCR of a later unit raises after earlier units were merged
C6_Witness ==
    /\ pc = "done"
    /\ OcrRaised
    /\ idx >= 1
    /\ merged_elements # <<>>
    /\ response = <<>>
    /\ result.status_code = 500

(***************************************************************************)
(* The name of the attachment, stated without os.path.splitext.            *)
(***************************************************************************)

\* the position of the dot that starts the extension of p, 0 when p has
\* none: the last dot, when it lies in the last path component and a
\* character other than a dot precedes it there
ExtDot(p) ==
    LET dots == {d \in 1..Len(p) :
                    /\ p[d] = "."
                    /\ \A j \in (d + 1)..Len(p) : p[j] \notin {".", "/"}
                    /\ \E k \in 1..(d - 1) :
                          /\ p[k] # "."
                          /\ \A j \in k..(d - 1) : p[j] # "/"}
    IN  IF dots = {} THEN 0 ELSE CHOOSE d \in dots : TRUE

Stem(p) == IF ExtDot(p) = 0 THEN p ELSE SubSeq(p, 1, ExtDot(p) - 1)

FormatTable(f) ==
    CASE f = "docx" -> [media_type |-> "application/vnd.openxmlformats-officedocument.wordprocessingml.document",
                        extension |-> ".docx"]
      [] f = "pdf"  -> [media_type |-> "application/pdf", extension |-> ".pdf"]
      [] f = "txt"  -> [media_type |-> "text/plain; charset=utf-8", extension |-> ".txt"]

MoreSuffix(n) == IF n > 1 THEN "_and_" \o ToString(n - 1) \o "_more" ELSE ""

\* C7 as stated: the attachment is named after the first file's name without
\* its extension, "_and_{K}_more" for K = files - 1 > 0, and the extension of
\* the format; the media type is the format's.
C7_AsStated ==
    Succeeded =>
        /\ response[1].filename =
              StrOf(Stem(files[1].filename)) \o MoreSuffix(Len(files))
              \o FormatTable(output_format).extension
        /\ response[1].media_type = FormatTable(output_format).media_type

\* C7 amended: as stated, with "document" for the name of a first file that
\* has no name (absent or empty).
C7_OutputFilename ==
    Succeeded =>
        /\ response[1].filename =
              (IF files[1].filename = <<>> THEN "document"
               ELSE StrOf(Stem(files[1].filename)))
              \o MoreSuffix(Len(files)) \o FormatTable(output_format).extension
        /\ response[1].media_type = FormatTable(output_format).media_type
        /\ (Len(files) = 3 /\ files[1].filename = Report) =>
              response[1].filename
                 = "report_and_2_more" \o FormatTable(output_format).extension

C7_Witness ==
    /\ Succeeded
    /\ Len(files) = 3
    /\ files[1].filename = Report
    /\ response[1].filename = "report_and_2_more.txt"

(***************************************************************************)
(* The renderers on the elements of a request.                             *)
(***************************************************************************)

KnownKinds == {"heading1", "heading2", "heading3", "bullet_list", "numbered_list", "paragraph"}

\* an element whose kind is absent or not a known one
UnknownKind(e) == "type" \notin DOMAIN e \/ e.type \notin KnownKinds

\* the paragraph carrying the text of e, the empty string when e has none
AsParagraph(e) == [type |-> "paragraph", text |-> IF "text" \in DOMAIN e THEN e.text ELSE ""]

RenderedElements == render_calls[1].structure.elements

\* C8: every renderer gives, for a document with elements of an absent or
\* unknown kind, the output it gives with each of them replaced by the
\* paragraph of the same text, and the request succeeds.
C8_UnknownKindIsParagraph ==
    (pc = "done" /\ Rendered) =>
        /\ result.status_code = 200
        /\ response # <<>>
        /\ response[1].body =
              Generate(render_calls[1].method,
                       [elements |-> [i \in 1..Len(RenderedElements) |->
                                        IF UnknownKind(RenderedElements[i])
                                        THEN AsParagraph(RenderedElements[i])
                                        ELSE RenderedElements[i]]])

\* a kind that is not known and an element without kind, rendered to PDF
C8_Witness ==
    /\ Succeeded
    /\ output_format = "pdf"
    /\ \E i, j \in 1..Len(RenderedElements) :
          /\ "type" \notin DOMAIN RenderedElements[i]
          /\ "text" \notin DOMAIN RenderedElements[i]
          /\ "type" \in DOMAIN RenderedElements[j]
          /\ RenderedElements[j].type = "table"

\* the structures merged so far: those of the units taken that have text
MergedStructures == StructuresOf(SubSeq(image_buffers, 1, idx))

\* C9: the merge of the orchestrator is the concatenation of the structures in
\* unit order; merging a merged prefix with the rest gives the merge of all,
\* so merge([merge([a,b]),c]) = merge([a,b,c]); merging nothing gives the empty
\* document.
C9_MergeAssociative ==
    LET docs == MergedStructures
    IN  /\ merged_elements = Merge(docs)
        /\ Merge(docs) = Concat(docs)
        /\ \A k \in 0..Len(docs) :
              Merge(<< Merge(SubSeq(docs, 1, k)) >> \o SubSeq(docs, k + 1, Len(docs)))
                 = Merge(docs)
        /\ Len(docs) >= 3 =>
              Merge(<< Merge(<< docs[1], docs[2] >>), docs[3] >>)
                 = Merge(<< docs[1], docs[2], docs[3] >>)
        /\ Merge(<<>>) = <<>>

\* three different structures, and a fourth equal to the first, merged
C9_Witness ==
    /\ pc = "generate"
    /\ Len(MergedStructures) = 4
    /\ MergedStructures[1] # MergedStructures[2]
    /\ MergedStructures[2] # MergedStructures[3]
    /\ MergedStructures[1] # MergedStructures[3]
    /\ MergedStructures[4] = MergedStructures[1]
    /\ Len(MergedStructures[2]) = 2

IsList(e) == "type" \in DOMAIN e /\ e.type \in {"bullet_list", "numbered_list"}
ItemsOf(e) == IF "items" \in DOMAIN e THEN e.items ELSE <<>>
EmptyList(e) == IsList(e) /\ ItemsOf(e) = <<>>

\* the lines of a list in the TXT output: one per item, numbered from 1 in a
\* numbered list, and one blank line
ListLines(e) ==
    [i \in 1..Len(ItemsOf(e)) |->
        IF e.type = "numbered_list" THEN "  " \o ToString(i) \o ". " \o ItemsOf(e)[i]
        ELSE "  - " \o ItemsOf(e)[i]]
    \o << "" >>

\* s without its lists that have no items
RECURSIVE WithoutEmptyLists(_)
WithoutEmptyLists(s) ==
    IF s = <<>> THEN <<>>
    ELSE (IF EmptyList(s[1]) THEN <<>> ELSE << s[1] >>) \o WithoutEmptyLists(Tail(s))

\* C10: a list without items (absent or empty) is no error and adds no item
\* line: in DOCX and PDF the output is that of the document without the list,
\* in TXT the list adds its blank line alone; the items of every numbered
\* list are numbered from 1.
C10_EmptyLists ==
    (pc = "done" /\ Rendered) =>
        /\ result.status_code = 200
        /\ response # <<>>
        /\ output_format = "txt" =>
              response[1].body =
                 JoinLines(Concat([i \in 1..Len(RenderedElements) |->
                                     IF IsList(RenderedElements[i])
                                     THEN ListLines(RenderedElements[i])
                                     ELSE TxtElement(RenderedElements[i])]))
        /\ output_format \in {"docx", "pdf"} =>
              response[1].body =
                 Generate(render_calls[1].method,
                          [elements |-> WithoutEmptyLists(RenderedElements)])

\* a numbered list without items and one with items, rendered to TXT
C10_Witness ==
    /\ Succeeded
    /\ output_format = "txt"
    /\ Len(RenderedElements) = 2
    /\ RenderedElements[1] = [type |-> "numbered_list"]
    /\ RenderedElements[2] = [type |-> "numbered_list", items |-> << "A", "B" >>]
    /\ response[1].body = "\n  1. A\n  2. B\n"

=============================================================================
